---- MODULE Spec2Model ----
(***************************************************************************)
(* Model of libs/hwui/GlLayer.cpp: the lifecycle of the GL texture name    *)
(* owned by one GlLayer, together with the collaborators it calls: the GL  *)
(* driver (glGenTextures / glDeleteTextures), the Caches singleton         *)
(* (isInitialized) and its texture binding tracker (bindTexture /          *)
(* unbindTexture).  Every handler of GlLayer is one atomic action; the     *)
(* calls a handler issues are recorded in `calls`.                         *)
(***************************************************************************)
EXTENDS Integers, Sequences, FiniteSets

\* ---------------------------------------------------------------- bounds
MaxName == 3        \* the driver hands out texture names 1..MaxName
MaxAllocs == 3      \* glGenTextures calls made over the layer's life
MaxDim == 2         \* layerWidth, layerHeight range over 1..MaxDim

Names == 1..MaxName
Dims == 1..MaxDim
Targets == {"GL_TEXTURE_2D", "GL_TEXTURE_EXTERNAL_OES"}

VARIABLES
    mId,          \* texture.mId, 0 = not allocated
    mWidth,       \* texture.mWidth
    mHeight,      \* texture.mHeight
    target,       \* texture.target()
    api,          \* Layer's Api tag
    alive,        \* FALSE once ~GlLayer has run
    initialized,  \* Caches::isInitialized()
    bound,        \* binding tracker: target -> bound texture name (0 = none)
    live,         \* driver: names generated and not yet deleted
    deleteCount,  \* driver: glDeleteTextures calls per name since its glGenTextures
    cleared,      \* names dropped by clearTexture while still live in the driver
    nGen,         \* glGenTextures calls made so far
    contextLost,  \* onGlContextLost has been delivered
    op,           \* the handler that ran last
    preId,        \* texture.mId when that handler was entered
    preInit,      \* Caches::isInitialized() when that handler was entered
    calls,        \* driver / tracker calls issued by that handler, in order
    preActive,    \* texture.mId was an active binding when that handler was entered
    task,         \* queued clearTexture task: "none", or the Caches state when posted
    ran           \* how that handler was invoked: "direct", or as the queued task

vars == <<mId, mWidth, mHeight, target, api, alive, initialized, bound, live,
          deleteCount, cleared, nGen, contextLost, op, preId, preInit, calls,
          preActive, task, ran>>

layerVars == <<mWidth, mHeight, target, api>>

\* One call made to a collaborator.
Call(f, t, n) == [fn |-> f, target |-> t, id |-> n]

\* Number of calls to f in the sequence s.
Count(s, f) == Cardinality({i \in 1..Len(s) : s[i].fn = f})

\* The ways a handler can be invoked: clearTexture runs either as a direct
\* call or as the task queued for it; every other handler is a direct call.
Invocations(name) ==
    IF name = "clearTexture" /\ task # "none"
    THEN {"direct", task}
    ELSE {"direct"}

\* Every handler records what it was entered with and how it was invoked;
\* running the queued task takes it off the queue.
Enter(name) ==
    /\ op' = name
    /\ preId' = mId
    /\ preInit' = initialized
    /\ preActive' = (mId # 0 /\ \E t \in Targets : bound[t] = mId)
    /\ \E how \in Invocations(name) :
         /\ ran' = how
         /\ task' = IF how = "direct" THEN task ELSE "none"

\* GlLayer::GlLayer: the state after construction.
Init ==
    /\ mId = 0
    /\ mWidth \in Dims
    /\ mHeight \in Dims
    /\ target \in Targets
    /\ api = "OpenGL"
    /\ alive = TRUE
    /\ initialized = TRUE
    /\ bound = [t \in Targets |-> 0]
    /\ live = {}
    /\ deleteCount = [n \in Names |-> 0]
    /\ cleared = {}
    /\ nGen = 0
    /\ contextLost = FALSE
    /\ op = "GlLayer"
    /\ preId = 0
    /\ preInit = TRUE
    /\ calls = <<>>
    /\ preActive = FALSE
    /\ task = "none"
    /\ ran = "direct"

\* TextureState::unbindTexture: forget the name wherever it is bound.
unbindTexture(n) == [t \in Targets |-> IF bound[t] = n THEN 0 ELSE bound[t]]

\* Texture::deleteTexture: destroy the driver texture and reset the name.
deleteTexture ==
    IF mId # 0
    THEN /\ calls' = <<Call("glDeleteTextures", "none", mId)>>
         /\ live' = live \ {mId}
         /\ deleteCount' = [deleteCount EXCEPT ![mId] = @ + 1]
         /\ mId' = 0
    ELSE /\ calls' = <<>>
         /\ UNCHANGED <<live, deleteCount, mId>>

\* Variant of ~GlLayer that drops the layer without deleting its texture.
Destructor_NoDelete ==
    /\ alive
    /\ Enter("~GlLayer")
    /\ alive' = FALSE
    /\ calls' = <<>>
    /\ UNCHANGED <<layerVars, mId, live, deleteCount, initialized, bound,
                   cleared, nGen, contextLost>>

\* GlLayer::~GlLayer
Destructor ==
    /\ alive
    /\ Enter("~GlLayer")
    /\ alive' = FALSE
    /\ IF mId # 0
       THEN deleteTexture
       ELSE /\ calls' = <<>>
            /\ UNCHANGED <<live, deleteCount, mId>>
    /\ UNCHANGED <<layerVars, initialized, bound, cleared, nGen, contextLost>>

\* Variant of onGlContextLost that deletes the texture but keeps the stale name.
onGlContextLost_KeepsId ==
    /\ alive
    /\ Enter("onGlContextLost")
    /\ contextLost' = TRUE
    /\ IF mId # 0
       THEN /\ calls' = <<Call("glDeleteTextures", "none", mId)>>
            /\ live' = live \ {mId}
            /\ deleteCount' = [deleteCount EXCEPT ![mId] = @ + 1]
       ELSE /\ calls' = <<>>
            /\ UNCHANGED <<live, deleteCount>>
    /\ UNCHANGED <<layerVars, mId, alive, initialized, bound, cleared, nGen>>

\* Variant of onGlContextLost that also unbinds the name from the tracker,
\* whatever the name is.
onGlContextLost_Unbinds ==
    /\ alive
    /\ Enter("onGlContextLost")
    /\ contextLost' = TRUE
    /\ bound' = unbindTexture(mId)
    /\ IF mId # 0
       THEN /\ calls' = <<Call("unbindTexture", "none", mId),
                          Call("glDeleteTextures", "none", mId)>>
            /\ live' = live \ {mId}
            /\ deleteCount' = [deleteCount EXCEPT ![mId] = @ + 1]
            /\ mId' = 0
       ELSE /\ calls' = <<Call("unbindTexture", "none", mId)>>
            /\ UNCHANGED <<live, deleteCount, mId>>
    /\ UNCHANGED <<layerVars, alive, initialized, cleared, nGen>>

\* GlLayer::onGlContextLost
onGlContextLost ==
    /\ alive
    /\ Enter("onGlContextLost")
    /\ contextLost' = TRUE
    /\ deleteTexture
    /\ UNCHANGED <<layerVars, alive, initialized, bound, cleared, nGen>>

\* Variant of bindTexture without the `if (texture.mId)` guard.
bindTexture_NoGuard ==
    /\ alive
    /\ Enter("bindTexture")
    /\ calls' = <<Call("bindTexture", target, mId)>>
    /\ bound' = [bound EXCEPT ![target] = mId]
    /\ UNCHANGED <<layerVars, mId, alive, initialized, live, deleteCount,
                   cleared, nGen, contextLost>>

\* Variant of bindTexture that always binds to GL_TEXTURE_2D instead of the
\* texture's own target.
bindTexture_FixedTarget ==
    /\ alive
    /\ Enter("bindTexture")
    /\ IF mId # 0
       THEN /\ calls' = <<Call("bindTexture", "GL_TEXTURE_2D", mId)>>
            /\ bound' = [bound EXCEPT !["GL_TEXTURE_2D"] = mId]
       ELSE /\ calls' = <<>>
            /\ UNCHANGED bound
    /\ UNCHANGED <<layerVars, mId, alive, initialized, live, deleteCount,
                   cleared, nGen, contextLost>>

\* GlLayer::bindTexture
bindTexture ==
    /\ alive
    /\ Enter("bindTexture")
    /\ IF mId # 0
       THEN /\ calls' = <<Call("bindTexture", target, mId)>>
            /\ bound' = [bound EXCEPT ![target] = mId]
       ELSE /\ calls' = <<>>
            /\ UNCHANGED bound
    /\ UNCHANGED <<layerVars, mId, alive, initialized, live, deleteCount,
                   cleared, nGen, contextLost>>

\* Variant of generateTexture without the `if (!texture.mId)` guard.
generateTexture_NoGuard ==
    /\ alive
    /\ Enter("generateTexture")
    /\ nGen < MaxAllocs
    /\ \E n \in Names \ live :
         /\ mId' = n
         /\ live' = live \cup {n}
         /\ deleteCount' = [deleteCount EXCEPT ![n] = 0]
         /\ calls' = <<Call("glGenTextures", "none", n)>>
    /\ nGen' = nGen + 1
    /\ UNCHANGED <<layerVars, alive, initialized, bound, cleared, contextLost>>

\* GlLayer::generateTexture
generateTexture ==
    /\ alive
    /\ Enter("generateTexture")
    /\ IF mId = 0
       THEN /\ nGen < MaxAllocs
            /\ \E n \in Names \ live :
                 /\ mId' = n
                 /\ live' = live \cup {n}
                 /\ deleteCount' = [deleteCount EXCEPT ![n] = 0]
                 /\ calls' = <<Call("glGenTextures", "none", n)>>
            /\ nGen' = nGen + 1
       ELSE /\ calls' = <<>>
            /\ UNCHANGED <<mId, live, deleteCount, nGen>>
    /\ UNCHANGED <<layerVars, alive, initialized, bound, cleared, contextLost>>

\* Variant of clearTexture without the caches.isInitialized() check.
clearTexture_NoCheck ==
    /\ alive
    /\ Enter("clearTexture")
    /\ calls' = <<Call("unbindTexture", "none", mId)>>
    /\ bound' = unbindTexture(mId)
    /\ mId' = 0
    /\ cleared' = IF mId # 0 THEN cleared \cup {mId} ELSE cleared
    /\ UNCHANGED <<layerVars, alive, initialized, live, deleteCount, nGen,
                   contextLost>>

\* Variant of clearTexture that releases the texture the way a full release
\* would: guarded by the name, unbind and then driver delete.
clearTexture_Release ==
    /\ alive
    /\ Enter("clearTexture")
    /\ IF initialized /\ mId # 0
       THEN /\ calls' = <<Call("unbindTexture", "none", mId),
                          Call("glDeleteTextures", "none", mId)>>
            /\ bound' = unbindTexture(mId)
            /\ live' = live \ {mId}
            /\ deleteCount' = [deleteCount EXCEPT ![mId] = @ + 1]
       ELSE /\ calls' = <<>>
            /\ UNCHANGED <<bound, live, deleteCount>>
    /\ mId' = 0
    /\ UNCHANGED <<layerVars, alive, initialized, cleared, nGen, contextLost>>

\* Variant of clearTexture that, when run as the queued task, trusts the Caches
\* state seen when the task was posted instead of checking it again.
clearTexture_ChecksAtPost ==
    /\ alive
    /\ Enter("clearTexture")
    /\ IF (ran' = "direct" /\ initialized) \/ ran' = "postedUp"
       THEN /\ calls' = <<Call("unbindTexture", "none", mId)>>
            /\ bound' = unbindTexture(mId)
       ELSE /\ calls' = <<>>
            /\ UNCHANGED bound
    /\ mId' = 0
    /\ cleared' = IF mId # 0 THEN cleared \cup {mId} ELSE cleared
    /\ UNCHANGED <<layerVars, alive, initialized, live, deleteCount, nGen,
                   contextLost>>

\* Variant of clearTexture that unbinds but forgets to reset the name.
clearTexture_KeepsId ==
    /\ alive
    /\ Enter("clearTexture")
    /\ IF initialized
       THEN /\ calls' = <<Call("unbindTexture", "none", mId)>>
            /\ bound' = unbindTexture(mId)
       ELSE /\ calls' = <<>>
            /\ UNCHANGED bound
    /\ cleared' = IF mId # 0 THEN cleared \cup {mId} ELSE cleared
    /\ UNCHANGED <<layerVars, mId, alive, initialized, live, deleteCount, nGen,
                   contextLost>>

\* Variant of clearTexture that also zeroes the texture's dimensions.
clearTexture_ClearsSize ==
    /\ alive
    /\ Enter("clearTexture")
    /\ IF initialized
       THEN /\ calls' = <<Call("unbindTexture", "none", mId)>>
            /\ bound' = unbindTexture(mId)
       ELSE /\ calls' = <<>>
            /\ UNCHANGED bound
    /\ mId' = 0
    /\ mWidth' = 0
    /\ mHeight' = 0
    /\ cleared' = IF mId # 0 THEN cleared \cup {mId} ELSE cleared
    /\ UNCHANGED <<target, api, alive, initialized, live, deleteCount, nGen,
                   contextLost>>

\* Variant of clearTexture that resets the name without telling the tracker.
clearTexture_NoUnbind ==
    /\ alive
    /\ Enter("clearTexture")
    /\ calls' = <<>>
    /\ mId' = 0
    /\ cleared' = IF mId # 0 THEN cleared \cup {mId} ELSE cleared
    /\ UNCHANGED <<layerVars, alive, initialized, bound, live, deleteCount,
                   nGen, contextLost>>

\* GlLayer::clearTexture
clearTexture ==
    /\ alive
    /\ Enter("clearTexture")
    /\ IF initialized
       THEN /\ calls' = <<Call("unbindTexture", "none", mId)>>
            /\ bound' = unbindTexture(mId)
       ELSE /\ calls' = <<>>
            /\ UNCHANGED bound
    /\ mId' = 0
    /\ cleared' = IF mId # 0 THEN cleared \cup {mId} ELSE cleared
    /\ UNCHANGED <<layerVars, alive, initialized, live, deleteCount, nGen,
                   contextLost>>

\* Caches::terminate: the singleton is torn down by its own owner.
CachesTerminate ==
    /\ initialized
    /\ initialized' = FALSE
    /\ UNCHANGED <<layerVars, mId, alive, bound, live, deleteCount, cleared,
                   nGen, contextLost, op, preId, preInit, calls, preActive,
                   task, ran>>

\* Caches::init: the singleton is brought up again.
CachesInit ==
    /\ ~initialized
    /\ initialized' = TRUE
    /\ UNCHANGED <<layerVars, mId, alive, bound, live, deleteCount, cleared,
                   nGen, contextLost, op, preId, preInit, calls, preActive,
                   task, ran>>

\* The caller queues clearTexture to run later as a task.
postClearTexture ==
    /\ alive
    /\ task = "none"
    /\ task' = IF initialized THEN "postedUp" ELSE "postedDown"
    /\ UNCHANGED <<layerVars, mId, alive, initialized, bound, live, deleteCount,
                   cleared, nGen, contextLost, op, preId, preInit, calls,
                   preActive, ran>>

Next ==
    \/ Destructor
    \/ onGlContextLost
    \/ bindTexture
    \/ generateTexture
    \/ clearTexture
    \/ postClearTexture
    \/ CachesTerminate
    \/ CachesInit

Spec == Init /\ [][Next]_vars

TypeOK ==
    /\ mId \in 0..MaxName
    /\ mWidth \in Dims /\ mHeight \in Dims
    /\ target \in Targets
    /\ alive \in BOOLEAN /\ initialized \in BOOLEAN /\ contextLost \in BOOLEAN
    /\ bound \in [Targets -> 0..MaxName]
    /\ live \subseteq Names /\ cleared \subseteq live
    /\ nGen \in 0..MaxAllocs
    /\ Len(calls) <= 1
    /\ preActive \in BOOLEAN
    /\ task \in {"none", "postedUp", "postedDown"}
    /\ ran \in {"direct", "postedUp", "postedDown"}

\* ---------------------------------------------------------------- claims

DriverCalls(s) == Count(s, "glGenTextures") + Count(s, "glDeleteTextures")
TrackerCalls(s) == Count(s, "bindTexture") + Count(s, "unbindTexture")

\* C1: after onGlContextLost on an allocated layer the name is 0 and no
\* driver destroy-texture call was issued.
C1_NoDestroyOnContextLoss ==
    (op = "onGlContextLost" /\ preId # 0) =>
        (mId = 0 /\ Count(calls, "glDeleteTextures") = 0)

C3_ClearWhenCachesDown ==
    (op = "clearTexture" /\ ~preInit) =>
        /\ mId = 0
        /\ TrackerCalls(calls) = 0
        /\ DriverCalls(calls) = 0
        /\ calls = <<>>

C3_Witness == op = "clearTexture" /\ ~preInit /\ preId # 0

\* C4: destroying an allocated layer issues exactly one driver destroy and
\* no tracker unbind; destroying an unallocated layer issues no call.
C4_DestructorCalls ==
    (op = "~GlLayer") =>
        IF preId # 0
        THEN /\ calls = <<Call("glDeleteTextures", "none", preId)>>
             /\ Count(calls, "unbindTexture") = 0
        ELSE calls = <<>>

C4_Witness == op = "~GlLayer" /\ preId # 0 /\ ~alive

\* C5: a name obtained by an allocation is destroyed at most once, and once
\* the name has been reset to 0 a later clearTexture, onGlContextLost or
\* destruction issues no destroy call.
C5_NoDoubleRelease ==
    /\ \A n \in Names : deleteCount[n] <= 1
    /\ (op \in {"clearTexture", "onGlContextLost", "~GlLayer"} /\ preId = 0) =>
           Count(calls, "glDeleteTextures") = 0

C5_Witness ==
    /\ op \in {"clearTexture", "onGlContextLost", "~GlLayer"}
    /\ preId = 0
    /\ \E n \in Names : deleteCount[n] = 1

\* C6: generateTexture on an unallocated layer issues exactly one driver
\* allocate call and stores a non-zero name; on an allocated layer it issues
\* no call and leaves the name unchanged.
C6_GenerateIdempotent ==
    (op = "generateTexture") =>
        IF preId = 0
        THEN /\ mId # 0
             /\ calls = <<Call("glGenTextures", "none", mId)>>
        ELSE /\ calls = <<>>
             /\ mId = preId

C6_Witness == op = "generateTexture" /\ preId # 0 /\ nGen = 1

\* C7: the name is 0 from construction until the first generateTexture, and
\* bindTexture on an unallocated layer makes no driver call and no tracker
\* call and leaves the name 0.
C7_UnallocatedBind ==
    /\ nGen = 0 => mId = 0
    /\ (op = "bindTexture" /\ preId = 0) => (calls = <<>> /\ mId = 0)

C7_Witness == op = "bindTexture" /\ preId = 0 /\ nGen = 0

\* C8: onGlContextLost on an unallocated layer is a no-op: the name stays 0
\* and no driver or tracker call is issued.
C8_ContextLossUnallocated ==
    (op = "onGlContextLost" /\ preId = 0) => (mId = 0 /\ calls = <<>>)

C8_Witness == op = "onGlContextLost" /\ preId = 0 /\ nGen = 0

C11_BindAllocated ==
    (op = "bindTexture" /\ preId # 0) =>
        /\ calls = <<Call("bindTexture", target, preId)>>
        /\ DriverCalls(calls) = 0
        /\ mId = preId
        /\ bound[target] = preId
        /\ nGen >= 1

C11_Witness ==
    /\ op = "bindTexture"
    /\ preId # 0
    /\ nGen = 1
    /\ target = "GL_TEXTURE_EXTERNAL_OES"

JustReset == alive /\ op \in {"clearTexture", "onGlContextLost"}

\* C13: the layer is reusable after every reset: in any state reached by
\* clearTexture or onGlContextLost the name is 0 and generateTexture can run,
\* and when it runs it issues exactly one driver allocate call and leaves the
\* layer allocated; the cycle repeats as often as the driver has names.
C13_ReusableAfterReset ==
    [][JustReset =>
         /\ mId = 0
         /\ (nGen < MaxAllocs /\ live # Names) => ENABLED generateTexture
         /\ generateTexture =>
              /\ mId' # 0
              /\ calls' = <<Call("glGenTextures", "none", mId')>>
              /\ nGen' = nGen + 1]_vars

C13_Witness ==
    /\ op = "generateTexture"
    /\ preId = 0
    /\ mId # 0
    /\ nGen = MaxAllocs
    /\ cleared # {}
    /\ contextLost

\* C14: the texture's width and height are the dimensions given at
\* construction and the Api tag is OpenGL; no later operation changes width,
\* height, target or Api tag.
C14_LayerAttributesFixed ==
    [][/\ api = "OpenGL"
       /\ api' = api
       /\ mWidth' = mWidth
       /\ mHeight' = mHeight
       /\ target' = target]_vars

C14_Witness ==
    /\ op = "bindTexture"
    /\ preId # 0
    /\ contextLost
    /\ cleared # {}
    /\ api = "OpenGL"
    /\ mWidth = MaxDim
    /\ mHeight = 1

\* C15: after clearTexture on an allocated layer with Caches initialized the
\* tracker records the layer's former name as the binding of no target, even
\* if bindTexture had made it the active binding before.
C15_FormerNameUnbound ==
    (op = "clearTexture" /\ preId # 0 /\ preInit) =>
        \A t \in Targets : bound[t] # preId

C15_Witness ==
    /\ op = "clearTexture"
    /\ preId # 0
    /\ preInit
    /\ preActive

\* C16 as stated: no layer operation (bindTexture, onGlContextLost,
\* clearTexture, destruction) calls the binding tracker while Caches is not
\* initialized.
C16_NoTrackerCallWhenCachesDown ==
    (op \in {"bindTexture", "onGlContextLost", "clearTexture", "~GlLayer"}
       /\ ~preInit) =>
        TrackerCalls(calls) = 0

\* C16 amended: while Caches is not initialized clearTexture makes no call,
\* and bindTexture and destruction make no call on an unallocated layer; but
\* bindTexture on an allocated layer has no liveness check and calls the
\* tracker once.
C16_OnlyClearChecksLiveness ==
    ~preInit =>
        /\ op = "clearTexture" => calls = <<>>
        /\ (op \in {"bindTexture", "~GlLayer"} /\ preId = 0) => calls = <<>>
        /\ (op = "bindTexture" /\ preId # 0) =>
               calls = <<Call("bindTexture", target, preId)>>

C16_Witness == op = "bindTexture" /\ ~preInit /\ preId # 0 /\ ~initialized
====
